---- MODULE Spec2Model ----
(***************************************************************************)
(* The extraction-and-pairing pipeline of pdf-extractor: the               *)
(* 'start-processing' handler of main.js (src/unnamed/part_000) and        *)
(* extractImagesAndLabels / runPdftocairoCli of pdf-extract-library.js     *)
(* (src/unnamed/part_002, lines 95-261).                                   *)
(*                                                                         *)
(* Strings of the program are sequences of one-character strings, so that  *)
(* the regular expression, trim and the collation of file names work on    *)
(* characters as the code does.                                            *)
(***************************************************************************)
EXTENDS Integers, Sequences, FiniteSets, TLC

\* ------------------------------------------------------------- bounds
\* Longest text, in tokens, the label scan is checked on.
MaxTokens == 4
\* Longest directory listing the natural sort is checked on.
MaxFiles == 3
\* Largest value Date.now() takes.
MaxClock == 1
\* Most 'data' events a render process sends on its stderr.
MaxStderr == 1
\* Longest file content, in bytes, the data URL is checked on.
MaxBytes == 3
\* Longest artifact name, in tokens, the file-name cleaning is checked on.
MaxNameTokens == 3
MaxScanTokens == 3

\* ------------------------------------------------------- character classes
\* \d
Digit == {"0", "1", "2", "3", "4", "5", "6", "7", "8", "9"}
\* [a-z]
Lower == {"a", "b", "e", "f", "g", "i", "j", "m", "n", "p", "t", "x"}
\* \w : letters, digits and the underscore
Upper == {"B", "G", "I", "M", "N", "P", "V"}
WordChar == Lower \cup Upper \cup Digit \cup {"_"}
\* \s
SpaceChar == {" ", "\n", "\t"}
\* [-\w]
HyphenWord == WordChar \cup {"-"}
\* [\w\s,]
TailChar == WordChar \cup SpaceChar \cup {","}

\* The character of s at position i (1-based), "" past either end.
At(s, i) == IF i >= 1 /\ i <= Len(s) THEN s[i] ELSE ""

\* String.prototype.slice on 1-based positions a..b, cut to the string.
Slice(s, a, b) ==
    LET lo == IF a < 1 THEN 1 ELSE a
        hi == IF b > Len(s) THEN Len(s) ELSE b
    IN  IF lo > hi THEN <<>> ELSE SubSeq(s, lo, hi)

\* Number of consecutive characters of class cls in s from position i,
\* at most max (a greedy bounded repetition).
RECURSIVE RunOf(_, _, _, _)
RunOf(s, i, cls, max) ==
    IF max = 0 \/ At(s, i) \notin cls THEN 0
    ELSE 1 + RunOf(s, i + 1, cls, max - 1)

\* ------------------------------------------------------- ARTIFACT_ID_REGEX
\* /(\d{4}\.\d{1,3}\.\d{1,3}[a-z]?[-\w]*(?:\s[\w\s,]+)?)/g matched at
\* position p of s: the position after the match, 0 when there is none.
\* Every quantified part after the two dots is followed only by optional
\* parts, so the greedy choice is the match.
MatchAt(s, p) ==
    LET d1  == RunOf(s, p + 5, Digit, 3)
        q1  == p + 5 + d1
        d2  == RunOf(s, q1 + 1, Digit, 3)
        q2  == q1 + 1 + d2
        q3  == IF At(s, q2) \in Lower THEN q2 + 1 ELSE q2
        q4  == q3 + RunOf(s, q3, HyphenWord, Len(s))
        q5  == IF At(s, q4) \in SpaceChar /\ At(s, q4 + 1) \in TailChar
               THEN q4 + 1 + RunOf(s, q4 + 1, TailChar, Len(s))
               ELSE q4
    IN  IF /\ RunOf(s, p, Digit, 4) = 4
           /\ At(s, p + 4) = "."
           /\ d1 >= 1
           /\ At(s, q1) = "."
           /\ d2 >= 1
        THEN q5
        ELSE 0

\* RegExp.prototype.exec on a global expression: the leftmost match that
\* starts at or after lastIndex (0-based), as [index, end] in 1-based
\* positions with end exclusive; found = FALSE is the null result.
RECURSIVE FirstMatch(_, _)
FirstMatch(s, p) ==
    IF p > Len(s) THEN 0
    ELSE IF MatchAt(s, p) # 0 THEN p
    ELSE FirstMatch(s, p + 1)

RegexExec(s, lastIndex) ==
    LET p == FirstMatch(s, lastIndex + 1)
    IN  IF p = 0
        THEN [found |-> FALSE, index |-> 0, end |-> 0]
        ELSE [found |-> TRUE, index |-> p, end |-> MatchAt(s, p)]

\* String.prototype.trim
RECURSIVE TrimEnd(_)
TrimEnd(s) ==
    IF s # <<>> /\ s[Len(s)] \in SpaceChar
    THEN TrimEnd(SubSeq(s, 1, Len(s) - 1))
    ELSE s

RECURSIVE TrimStart(_)
TrimStart(s) ==
    IF s # <<>> /\ s[1] \in SpaceChar THEN TrimStart(Tail(s)) ELSE s

Trim(s) == TrimStart(TrimEnd(s))

\* Array.prototype.includes
Includes(list, x) == \E i \in 1..Len(list) : list[i] = x

\* The scan loop without its includes test.
PushLabelUnchecked(foundLabels, label) ==
    IF label # <<>> THEN Append(foundLabels, label) ELSE foundLabels

\* The body of the scan loop: what one match does to foundLabels.
PushLabel(foundLabels, label) ==
    IF label # <<>> /\ ~Includes(foundLabels, label)
    THEN Append(foundLabels, label)
    ELSE foundLabels

\* An expression without the g flag: exec leaves lastIndex where it was.
LastIndexNotGlobal(m) == 0

\* exec on a global expression sets lastIndex to the end of the match
\* (0-based), which is the 1-based position of its last character.
LastIndexAfter(m) == m.end - 1

\* A loop that is left at its first match, the expression's lastIndex
\* staying where that match ended.
ScanLoopLeftEarly(s, li, foundLabels, seen) ==
    LET m == RegexExec(s, li)
    IN  IF ~m.found
        THEN [labels |-> foundLabels, matches |-> seen, lastIndex |-> 0]
        ELSE LET label == Trim(SubSeq(s, m.index, m.end - 1))
             IN  [labels |-> PushLabel(foundLabels, label),
                  matches |-> Append(seen, label),
                  lastIndex |-> LastIndexAfter(m)]

\* while ((m = ARTIFACT_ID_REGEX.exec(pdfText)) !== null) { ... } started
\* with the expression's lastIndex at li: the labels collected, every
\* trimmed match in scan order, and the lastIndex the loop leaves behind
\* (exec resets it to 0 when it returns null).
RECURSIVE ScanLoop(_, _, _, _)
ScanLoop(s, li, foundLabels, seen) ==
    LET m == RegexExec(s, li)
    IN  IF ~m.found
        THEN [labels |-> foundLabels, matches |-> seen, lastIndex |-> 0]
        ELSE LET label == Trim(SubSeq(s, m.index, m.end - 1))
             IN  ScanLoop(s, LastIndexAfter(m), PushLabel(foundLabels, label),
                          Append(seen, label))

FindLabels(s, li) == ScanLoop(s, li, <<>>, <<>>)

\* ------------------------------------------------ natural order of names
\* The value of a run of decimal digits.
DigitVal(c) ==
    CASE c = "0" -> 0 [] c = "1" -> 1 [] c = "2" -> 2 [] c = "3" -> 3
      [] c = "4" -> 4 [] c = "5" -> 5 [] c = "6" -> 6 [] c = "7" -> 7
      [] c = "8" -> 8 [] c = "9" -> 9

RECURSIVE NumVal(_)
NumVal(ds) ==
    IF ds = <<>> THEN 0
    ELSE 10 * NumVal(SubSeq(ds, 1, Len(ds) - 1)) + DigitVal(ds[Len(ds)])

\* Lower-case form of a character (the i flag of /\.png$/i, and the
\* primary collation weight, which ignores case).
ToLowerChar(c) ==
    CASE c = "B" -> "b" [] c = "G" -> "g" [] c = "I" -> "i" [] c = "M" -> "m"
      [] c = "N" -> "n" [] c = "P" -> "p" [] c = "V" -> "v"
      [] OTHER -> c

\* Primary collation order of the root locale for the characters of file
\* names: punctuation (_ - , ; .) before digits before letters.
CollationOrder ==
    <<"_", "-", ",", ";", ".", "0", "1", "2", "3", "4", "5", "6", "7", "8",
      "9", "a", "b", "e", "f", "g", "i", "j", "m", "n", "p", "t", "v", "x">>

CollationRank(c) ==
    LET l == ToLowerChar(c)
    IN  IF \E k \in 1..Len(CollationOrder) : CollationOrder[k] = l
        THEN CHOOSE k \in 1..Len(CollationOrder) : CollationOrder[k] = l
        ELSE 0

Sign(n) == IF n < 0 THEN -1 ELSE IF n > 0 THEN 1 ELSE 0

\* a.localeCompare(b, undefined, { numeric: true }) from positions i of a
\* and j of b: runs of digits compare by the integer they denote, other
\* characters by collation order, a proper prefix first.
RECURSIVE CompareFrom(_, _, _, _)
CompareFrom(a, i, b, j) ==
    IF i > Len(a) /\ j > Len(b) THEN 0
    ELSE IF i > Len(a) THEN -1
    ELSE IF j > Len(b) THEN 1
    ELSE IF a[i] \in Digit /\ b[j] \in Digit
    THEN LET ra == RunOf(a, i, Digit, Len(a))
             rb == RunOf(b, j, Digit, Len(b))
             va == NumVal(SubSeq(a, i, i + ra - 1))
             vb == NumVal(SubSeq(b, j, j + rb - 1))
         IN  IF va # vb THEN Sign(va - vb)
             ELSE CompareFrom(a, i + ra, b, j + rb)
    ELSE IF CollationRank(a[i]) # CollationRank(b[j])
    THEN Sign(CollationRank(a[i]) - CollationRank(b[j]))
    ELSE CompareFrom(a, i + 1, b, j + 1)

\* localeCompare without { numeric: true }: every character by its
\* collation order.
RECURSIVE CompareChars(_, _, _)
CompareChars(a, b, i) ==
    IF i > Len(a) /\ i > Len(b) THEN 0
    ELSE IF i > Len(a) THEN -1
    ELSE IF i > Len(b) THEN 1
    ELSE IF CollationRank(a[i]) # CollationRank(b[i])
    THEN Sign(CollationRank(a[i]) - CollationRank(b[i]))
    ELSE CompareChars(a, b, i + 1)

LocaleComparePlain(a, b) == CompareChars(a, b, 1)

LocaleCompareNumeric(a, b) == CompareFrom(a, 1, b, 1)

\* Array.prototype.sort with that comparator; the sort is stable, so x goes
\* after every element that does not compare greater than it.
InsertSorted(sorted, x) ==
    LET after == {k \in 1..Len(sorted) : LocaleCompareNumeric(sorted[k], x) > 0}
        pos   == IF after = {} THEN Len(sorted) + 1
                 ELSE CHOOSE k \in after : \A k2 \in after : k <= k2
    IN  SubSeq(sorted, 1, pos - 1) \o <<x>> \o SubSeq(sorted, pos, Len(sorted))

RECURSIVE SortNames(_)
SortNames(list) ==
    IF list = <<>> THEN <<>>
    ELSE InsertSorted(SortNames(SubSeq(list, 1, Len(list) - 1)), list[Len(list)])

LowerSeq(s) == [k \in 1..Len(s) |-> ToLowerChar(s[k])]

\* /\.png$/i
IsPng(f) ==
    LowerSeq(Slice(f, Len(f) - 3, Len(f))) = <<".", "p", "n", "g">>

\* /img[-_]\d+\.png$/i
IsImgPng(f) ==
    \E k \in 1..Len(f) :
        /\ LowerSeq(Slice(f, k, k + 2)) = <<"i", "m", "g">>
        /\ At(f, k + 3) \in {"-", "_"}
        /\ LET d == RunOf(f, k + 4, Digit, Len(f))
           IN  /\ d >= 1
               /\ LowerSeq(Slice(f, k + 4 + d, Len(f))) = <<".", "p", "n", "g">>

\* The listing of the workspace as pairing uses it: the .png names in
\* natural order and, when there is none, the img-N.png / img_N.png names.
ExtractedFiles(listing) ==
    LET first == SortNames(SelectSeq(listing, IsPng))
    IN  IF Len(first) = 0 THEN SortNames(SelectSeq(listing, IsImgPng)) ELSE first

\* ------------------------------------------------- base64 and data URLs
\* The base64 alphabet: the character of the sextet v is Base64Chars[v + 1].
Base64Chars ==
    <<"A", "B", "C", "D", "E", "F", "G", "H", "I", "J", "K", "L", "M", "N", "O", "P",
      "Q", "R", "S", "T", "U", "V", "W", "X", "Y", "Z", "a", "b", "c", "d", "e", "f",
      "g", "h", "i", "j", "k", "l", "m", "n", "o", "p", "q", "r", "s", "t", "u", "v",
      "w", "x", "y", "z", "0", "1", "2", "3", "4", "5", "6", "7", "8", "9", "+", "/">>

\* buf.toString('base64') of the bytes from position i: three bytes give
\* four characters; one or two bytes left over give two or three characters
\* and padding.
RECURSIVE Base64Encode(_, _)
Base64Encode(buf, i) ==
    LET left == Len(buf) - i + 1
    IN  IF left <= 0 THEN <<>>
        ELSE IF left = 1
        THEN LET n == buf[i] * 16
             IN  <<Base64Chars[(n \div 64) + 1], Base64Chars[(n % 64) + 1],
                   "=", "=">>
        ELSE IF left = 2
        THEN LET n == (buf[i] * 256 + buf[i + 1]) * 4
             IN  <<Base64Chars[(n \div 4096) + 1],
                   Base64Chars[((n \div 64) % 64) + 1],
                   Base64Chars[(n % 64) + 1], "=">>
        ELSE LET n == buf[i] * 65536 + buf[i + 1] * 256 + buf[i + 2]
             IN  <<Base64Chars[(n \div 262144) + 1],
                   Base64Chars[((n \div 4096) % 64) + 1],
                   Base64Chars[((n \div 64) % 64) + 1],
                   Base64Chars[(n % 64) + 1]>>
                 \o Base64Encode(buf, i + 3)

\* `data:image/png;base64,${buf.toString('base64')}`
DataUrlPrefix == <<"d", "a", "t", "a", ":", "i", "m", "a", "g", "e", "/", "p", "n", "g", ";", "b", "a", "s", "e", "6", "4", ",">>
DataUrl(buf) == DataUrlPrefix \o Base64Encode(buf, 1)

\* The separator handleAutoSave splits the data URL at.
Base64Sep == <<";", "b", "a", "s", "e", "6", "4", ",">>

\* The start of the last occurrence of sep in s, 0 when there is none.
LastIndexOf(s, sep) ==
    LET at == {k \in 1..Len(s) : Slice(s, k, k + Len(sep) - 1) = sep}
    IN  IF at = {} THEN 0 ELSE CHOOSE k \in at : \A k2 \in at : k2 <= k

\* s.split(sep)[0]: the piece before the first separator.
SplitFirst(s, sep) ==
    LET at == {k \in 1..Len(s) : Slice(s, k, k + Len(sep) - 1) = sep}
    IN  IF at = {} THEN s
        ELSE Slice(s, 1, (CHOOSE k \in at : \A k2 \in at : k <= k2) - 1)

\* s.split(sep).pop(): the piece after the last separator, all of s when
\* there is none.
SplitPop(s, sep) ==
    LET k == LastIndexOf(s, sep)
    IN  IF k = 0 THEN s ELSE Slice(s, k + Len(sep), Len(s))

\* The sextet of a base64 character.
SextetOf(c) == (CHOOSE v \in 1..64 : Base64Chars[v] = c) - 1

\* The sextets of the characters of s up to the first padding character;
\* a character outside the alphabet is passed over.
RECURSIVE Sextets(_, _)
Sextets(s, i) ==
    IF i > Len(s) \/ s[i] = "=" THEN <<>>
    ELSE IF \E v \in 1..64 : Base64Chars[v] = s[i]
    THEN <<SextetOf(s[i])>> \o Sextets(s, i + 1)
    ELSE Sextets(s, i + 1)

\* The bytes of the sextets from position i: four sextets give three
\* bytes, three give two, two give one.
RECURSIVE BytesOf(_, _)
BytesOf(sx, i) ==
    LET left == Len(sx) - i + 1
    IN  IF left <= 1 THEN <<>>
        ELSE IF left = 2
        THEN <<(sx[i] * 64 + sx[i + 1]) \div 16>>
        ELSE IF left = 3
        THEN LET n == (sx[i] * 4096 + sx[i + 1] * 64 + sx[i + 2]) \div 4
             IN  <<n \div 256, n % 256>>
        ELSE LET n == sx[i] * 262144 + sx[i + 1] * 4096 + sx[i + 2] * 64
                      + sx[i + 3]
             IN  <<n \div 65536, (n \div 256) % 256, n % 256>>
                 \o BytesOf(sx, i + 4)

\* Buffer.from(s, 'base64')
Base64Decode(s) == BytesOf(Sextets(s, 1), 1)

\* handleAutoSave, lines 102 and 106: the bytes written for an artifact.
DecodeItem(item) == Base64Decode(SplitPop(item.dataUrl, Base64Sep))

\* ------------------------------------------------ the names of saved files
\* /\.jpg|\.jpeg|\.png|\.gif$/i at position i of s: the length of the match
\* there, 0 when there is none. Only the last alternative is tied to the end
\* of the string.
ImageExtAt(s, i) ==
    LET four == LowerSeq(Slice(s, i, i + 3))
    IN  IF four = <<".", "j", "p", "g">> THEN 4
        ELSE IF LowerSeq(Slice(s, i, i + 4)) = <<".", "j", "p", "e", "g">> THEN 5
        ELSE IF four = <<".", "p", "n", "g">> THEN 4
        ELSE IF four = <<".", "g", "i", "f">> /\ i + 3 = Len(s) THEN 4
        ELSE 0

\* name.replace(/\.jpg|\.jpeg|\.png|\.gif$/i, ''): the expression is not
\* global, so the leftmost match is removed and no other.
StripImageExt(s) ==
    LET at == {k \in 1..Len(s) : ImageExtAt(s, k) > 0}
    IN  IF at = {} THEN s
        ELSE LET k == CHOOSE k1 \in at : \A k2 \in at : k1 <= k2
             IN  Slice(s, 1, k - 1) \o Slice(s, k + ImageExtAt(s, k), Len(s))

\* [a-zA-Z0-9\s\.\-]
FileNameChar == Lower \cup Upper \cup Digit \cup SpaceChar \cup {".", "-"}
IsFileNameChar(c) == c \in FileNameChar

\* baseName.replace(/[^a-zA-Z0-9\s\.\-]/g, '')
CleanChars(s) == SelectSeq(s, IsFileNameChar)

\* handleAutoSave, lines 103-104: cleanedFileName
CleanedFileName(name) ==
    Trim(CleanChars(StripImageExt(name))) \o <<".", "p", "n", "g">>

\* ------------------------------------------------------------ the inputs
RECURSIVE Concat(_)
Concat(ss) == IF ss = <<>> THEN <<>> ELSE Head(ss) \o Concat(Tail(ss))

Min(a, b) == IF a <= b THEN a ELSE b

\* Pieces a document text is made of: two identifiers, bare, closed by a
\* character no label holds, or followed by white space first; a word of
\* description; separators; a digit.
Id1 == <<"1", "9", "9", "8", ".", "5", ".", "1">>
Id2 == <<"2", "0", "0", "1", ".", "3", ".", "4">>
Tokens ==
    {Id1, Id2, Id1 \o <<";">>, Id2 \o <<";">>, Id1 \o <<" ", ";">>,
     <<" ", "B">>, <<"\n">>, <<",">>, <<"7">>}

\* Names a render backend gives its files: outPrefix 'img_' and pdftocairo's
\* -N.png, with and without zero padding, and two names that are no PNG.
ImgPrefix == <<"i", "m", "g", "_", "-">>
DotPng == <<".", "p", "n", "g">>
PngName(ds) == ImgPrefix \o ds \o DotPng
FileNames ==
    {PngName(ds) : ds \in {<<"1">>, <<"2">>, <<"9">>, <<"1", "0">>,
                           <<"0", "2">>, <<"1", "0", "0">>}}
    \cup {<<"i", "m", "g", "-", "3", ".", "P", "N", "G">>,
          ImgPrefix \o <<"1", ".", "t", "x", "t">>}

\* What the file path of a run resolves to.
PathKinds == {"missing", "unreadable", "corrupt", "ok"}
\* parsed.text of the documents a run is given.
PipelineTexts ==
    {<<>>, Id1 \o <<" ", "B", ",", "\n", "7">>,
     Concat(<<Id1, <<"_", ";">>, Id1, <<";">>, Id1>>)}
\* The files one render call leaves in the workspace.
RenderOutputs == {{}, {PngName(<<"2">>), PngName(<<"1", "0">>)}}
\* What require('node-poppler') gives: the module is absent, its instance
\* has pdfToCairo, only pdfToCairoSync, neither, or what tryLoadNodePoppler
\* returns cannot be constructed (new PopplerClass throws).
PopplerShapes == {"absent", "async", "sync", "unknown", "throws"}

\* The invocations of 'start-processing': two, so that runs can overlap.
Runs == {1, 2}

\* ------------------------------------------------------------- the state
VARIABLES
    now,            \* Date.now()
    dirs,           \* the workspace directories that exist under os.tmpdir()
    files,          \* the files in them: [dir, name, data]
    pdfExtractor,   \* main.js: the library module, "null" until it loads
    popplerShape,   \* what tryLoadNodePoppler finds
    lastIndex,      \* ARTIFACT_ID_REGEX.lastIndex
    running,        \* the run whose synchronous code is on the stack, 0 if none
    run,            \* per invocation of 'start-processing': its locals
    scanText,       \* label scan on its own: the text
    scanOut,        \*   and what the loop produced
    sortIn,         \* pairing's listing on its own: readdirSync's result
    sortOut,        \*   and extractedFiles
    codecIn,        \* the data URL on its own: the content of a file
    codecOut,       \*   its artifact and the bytes the save step writes
    nameIn,         \* file-name cleaning on its own: an artifact's name
    nameOut         \*   and cleanedFileName, of it and of the result

pipeVars == <<now, dirs, files, pdfExtractor, popplerShape, lastIndex, running, run>>
pureVars == <<scanText, scanOut, sortIn, sortOut, codecIn, codecOut, nameIn, nameOut>>
vars == <<now, dirs, files, pdfExtractor, popplerShape, lastIndex, running, run,
          scanText, scanOut, sortIn, sortOut, codecIn, codecOut, nameIn, nameOut>>

NoSave ==
    [done |-> FALSE, dirFailed |-> FALSE, success |-> FALSE, filesSaved |-> 0,
     errors |-> <<>>, dest |-> {}]

InitRun ==
    [pc             |-> "idle",
     filePath       |-> "none",
     tempDir        |-> <<>>,      \* extractImagesAndLabels: const tempDir
     created        |-> FALSE,     \* mkdirSync returned in this run
     handlerTempDir |-> <<>>,      \* the handler's let tempDir = null
     pdfText        |-> <<>>,
     parseCalls     |-> 0,         \* calls of pdf(dataBuffer)
     foundLabels    |-> <<>>,
     renderCalls    |-> <<>>,      \* the render strategies started, in order
     promise        |-> "none",    \* the awaited render promise
     proc           |-> "none",    \* the render process
     stderr         |-> <<>>,      \* runPdftocairoCli: let stderr
     exitCode       |-> "none",    \* the code of the 'close' event
     extractedFiles |-> <<>>,
     results        |-> <<>>,
     paired         |-> FALSE,     \* the pairing loop has ended
     readFailures   |-> 0,         \* files the loop skipped (lines 245-248)
     unreadable     |-> {},        \* the indexes i the loop skipped
     error          |-> <<>>,      \* the error in flight
     saveStatus     |-> NoSave,
     cleanups       |-> 0,         \* calls of fs.rmSync on the workspace
     cleanupErrors  |-> 0,         \*   those that threw
     rmMissing      |-> 0,         \*   those whose path did not exist
     outcome        |-> [kind |-> "none"]]

PipeInit ==
    /\ now = 0
    /\ dirs = {}
    /\ files = {}
    /\ pdfExtractor \in {"null", "loaded"}
    /\ popplerShape \in PopplerShapes
    /\ lastIndex = 0
    /\ running = 0
    /\ run = [r \in Runs |-> InitRun]

ScanIdle == scanText = <<>> /\ scanOut = [done |-> FALSE]
SortIdle == sortIn = <<>> /\ sortOut = [done |-> FALSE]
CodecIdle == codecIn = <<>> /\ codecOut = [done |-> FALSE]
NameIdle == nameIn = <<>> /\ nameOut = [done |-> FALSE]

PureIdle == ScanIdle /\ SortIdle /\ CodecIdle /\ NameIdle

Init == PipeInit /\ PureIdle

\* ------------------------------------------------------- the file system
\* fs.rmSync(dir, { recursive: true, force: true })
RmDirs(ds, dir) == ds \ {dir}
RmFiles(fs, dir) == {f \in fs : f.dir # dir}
\* A removal without force: a path that does not exist is an error.
RmSyncNoForce(ds, fs, dir, refused) ==
    IF dir \notin ds \/ refused
    THEN [dirs |-> ds, files |-> fs, threw |-> TRUE]
    ELSE [dirs |-> RmDirs(ds, dir), files |-> RmFiles(fs, dir), threw |-> FALSE]

\* The call as a whole: with force, a path that does not exist is no error
\* and nothing changes; a directory that exists is removed with its files
\* unless the system refuses (EPERM, EBUSY), and then the call throws.
RmSync(ds, fs, dir, refused) ==
    IF dir \notin ds
    THEN [dirs |-> ds, files |-> fs, threw |-> FALSE]
    ELSE IF refused
         THEN [dirs |-> ds, files |-> fs, threw |-> TRUE]
         ELSE [dirs |-> RmDirs(ds, dir), files |-> RmFiles(fs, dir),
               threw |-> FALSE]

\* The counters of a run after a call of rmSync on dir with result res.
Cleaned(rec, ds, dir, res) ==
    [rec EXCEPT !.cleanups = @ + 1,
                !.cleanupErrors = IF res.threw THEN @ + 1 ELSE @,
                !.rmMissing = IF dir \notin ds THEN @ + 1 ELSE @]

\* The bytes of the page image the render call of run w writes under the
\* name n: a PNG starts with the byte 137; the rest tells the images apart.
PageBytes(w, n) == <<137, w, Len(n)>>

\* The render call of run w writing the files names into dir, over any file
\* of that name.
WriteFiles(fs, dir, names, w) ==
    {f \in fs : ~(f.dir = dir /\ f.name \in names)}
    \cup {[dir |-> dir, name |-> n, data |-> PageBytes(w, n)] : n \in names}
NamesIn(fs, dir) == {f.name : f \in {g \in fs : g.dir = dir}}
DataOf(fs, dir, name) ==
    (CHOOSE f \in fs : f.dir = dir /\ f.name = name).data
\* fs.readdirSync: the names in some order.
Listings(names) ==
    {l \in [1..Cardinality(names) -> names] :
        \A i, j \in 1..Cardinality(names) : i # j => l[i] # l[j]}

\* -------------------------------------------------- 'start-processing'
Upd(r, rec) == [run EXCEPT ![r] = rec]

\* The handler is invoked: lines 53-66 of main.js. Invocations are numbered
\* in the order they arrive. A library that did not load at startup is
\* required again; if that fails the handler throws before its try block.
StartProcessing(r) ==
    /\ running = 0
    /\ run[r].pc = "idle"
    /\ IF r = 1 THEN TRUE ELSE run[r - 1].pc # "idle"
    /\ \E path \in PathKinds, loads \in BOOLEAN :
        IF pdfExtractor = "loaded" \/ loads
        THEN /\ pdfExtractor' = "loaded"
             /\ running' = r
             /\ run' = Upd(r, [run[r] EXCEPT !.pc = "validating",
                                             !.filePath = path])
        ELSE /\ run' = Upd(r, [run[r] EXCEPT
                    !.pc = "delivered",
                    !.filePath = path,
                    !.outcome = [kind |-> "error",
                                 msg |-> <<"Extraction module missing or failed to load">>]])
             /\ UNCHANGED <<pdfExtractor, running>>
    /\ UNCHANGED <<now, dirs, files, popplerShape, lastIndex>>
    /\ UNCHANGED pureVars

\* extractImagesAndLabels, lines 156-158: !pdfFilePath || !fs.existsSync.
ValidateInput(r) ==
    /\ running = r
    /\ run[r].pc = "validating"
    /\ run' = Upd(r, IF run[r].filePath = "missing"
                     THEN [run[r] EXCEPT !.pc = "catch",
                                         !.error = <<"PDF not found">>]
                     ELSE [run[r] EXCEPT !.pc = "createWorkspace"])
    /\ UNCHANGED <<now, dirs, files, pdfExtractor, popplerShape, lastIndex, running>>
    /\ UNCHANGED pureVars

\* path.join(os.tmpdir(), `pdf-extract-${Date.now()}`)
TempDirName(t) == <<t>>

\* fs.mkdirSync(dir, { recursive: true }): an existing directory is no error.
MkdirRecursive(ds, dir) == ds \cup {dir}

\* Lines 161-162: name the workspace after the clock and create it; the
\* file system may refuse.
CreateWorkspace(r) ==
    /\ running = r
    /\ run[r].pc = "createWorkspace"
    /\ \E ok \in BOOLEAN :
        IF ok
        THEN /\ dirs' = MkdirRecursive(dirs, TempDirName(now))
             /\ run' = Upd(r, [run[r] EXCEPT !.pc = "readSource",
                                             !.tempDir = TempDirName(now),
                                             !.created = TRUE])
        ELSE /\ dirs' = dirs
             /\ run' = Upd(r, [run[r] EXCEPT !.pc = "catch",
                                             !.tempDir = TempDirName(now),
                                             !.error = <<"mkdir failed">>])
    /\ UNCHANGED <<now, files, pdfExtractor, popplerShape, lastIndex, running>>
    /\ UNCHANGED pureVars

\* Lines 165-166: fs.readFileSync(pdfFilePath), then pdf(dataBuffer) is
\* called and awaited.
ReadSource(r) ==
    /\ running = r
    /\ run[r].pc = "readSource"
    /\ IF run[r].filePath = "unreadable"
       THEN /\ run' = Upd(r, [run[r] EXCEPT !.pc = "catch",
                                            !.error = <<"read failed">>])
            /\ running' = running
       ELSE /\ run' = Upd(r, [run[r] EXCEPT !.pc = "parsing",
                                            !.parseCalls = @ + 1])
            /\ running' = 0
    /\ UNCHANGED <<now, dirs, files, pdfExtractor, popplerShape, lastIndex>>
    /\ UNCHANGED pureVars

\* pdf(dataBuffer) settles: it rejects for a file that is no PDF, else it
\* resolves with the text (lines 166-168).
ParseSettled(r) ==
    /\ running = 0
    /\ run[r].pc = "parsing"
    /\ running' = r
    /\ IF run[r].filePath = "corrupt"
       THEN run' = Upd(r, [run[r] EXCEPT !.pc = "catch",
                                         !.error = <<"parse failed">>])
       ELSE \E t \in PipelineTexts :
                run' = Upd(r, [run[r] EXCEPT !.pc = "scanning", !.pdfText = t])
    /\ UNCHANGED <<now, dirs, files, pdfExtractor, popplerShape, lastIndex>>
    /\ UNCHANGED pureVars

\* Lines 171-176: the label scan.
ScanLabels(r) ==
    /\ running = r
    /\ run[r].pc = "scanning"
    /\ LET res == FindLabels(run[r].pdfText, lastIndex)
       IN  /\ run' = Upd(r, [run[r] EXCEPT !.pc = "selectBackend",
                                           !.foundLabels = res.labels])
           /\ lastIndex' = res.lastIndex
    /\ UNCHANGED <<now, dirs, files, pdfExtractor, popplerShape, running>>
    /\ UNCHANGED pureVars

\* Lines 179-211: which strategy the shape of the binding selects:
\* the constructor throws, the promise-returning call, the synchronous
\* call, or the command line.
SelectedStrategy(shape) ==
    CASE shape = "throws"  -> "none"
      [] shape = "async"   -> "lib"
      [] shape = "sync"    -> "libSync"
      [] shape = "unknown" -> "cli"
      [] shape = "absent"  -> "cli"

\* A catch clause that falls back to the command line when the binding's
\* call failed.
OnRenderFailureRetry(calls) ==
    IF calls # <<>> /\ calls[Len(calls)] \in {"lib", "libSync"}
    THEN "spawnCli"
    ELSE "renderCatch"

\* Line 212: where a failure inside the try block goes, given the
\* strategies started so far: the catch clause, whatever they were.
OnRenderFailure(calls) == "renderCatch"

\* The render call ran to its end in dir: it left its files there if the
\* directory is (still) there.
Rendered(fs, ds, dir, out, r) ==
    IF dir \in ds THEN WriteFiles(fs, dir, out, r) ELSE fs

\* Lines 183-205 for the binding: construct it and call what it offers.
SelectBackend(r) ==
    /\ running = r
    /\ run[r].pc = "selectBackend"
    /\ LET st == SelectedStrategy(popplerShape)
       IN  CASE st = "none" ->
                 /\ run' = Upd(r, [run[r] EXCEPT
                        !.pc = OnRenderFailure(run[r].renderCalls),
                        !.error = <<"constructor threw">>])
                 /\ UNCHANGED <<files, running>>
             [] st = "lib" ->
                 /\ \E hangs \in BOOLEAN :
                      run' = Upd(r, [run[r] EXCEPT
                        !.pc = "rendering",
                        !.renderCalls = Append(@, "lib"),
                        !.promise = "pending",
                        !.proc = IF hangs THEN "hung" ELSE "running"])
                 /\ running' = 0
                 /\ files' = files
             [] st = "libSync" ->
                 /\ \E ok \in BOOLEAN, out \in RenderOutputs :
                      IF ok
                      THEN /\ files' = Rendered(files, dirs, run[r].tempDir, out, r)
                           /\ run' = Upd(r, [run[r] EXCEPT
                                !.pc = "pairing",
                                !.renderCalls = Append(@, "libSync")])
                      ELSE /\ files' = files
                           /\ run' = Upd(r, [run[r] EXCEPT
                                !.pc = OnRenderFailure(Append(run[r].renderCalls, "libSync")),
                                !.renderCalls = Append(@, "libSync"),
                                !.error = <<"pdfToCairoSync threw">>])
                 /\ running' = running
             [] st = "cli" ->
                 /\ run' = Upd(r, [run[r] EXCEPT !.pc = "spawnCli"])
                 /\ UNCHANGED <<files, running>>
    /\ UNCHANGED <<now, dirs, pdfExtractor, popplerShape, lastIndex>>
    /\ UNCHANGED pureVars

\* runPdftocairoCli, lines 128-142: spawn the process and wait for its
\* events. The process is one that will end or one that never does.
SpawnCli(r) ==
    /\ running = r
    /\ run[r].pc = "spawnCli"
    /\ \E hangs \in BOOLEAN :
         run' = Upd(r, [run[r] EXCEPT
            !.pc = "rendering",
            !.renderCalls = Append(@, "cli"),
            !.promise = "pending",
            !.proc = IF hangs THEN "hung" ELSE "running",
            !.stderr = <<>>])
    /\ running' = 0
    /\ UNCHANGED <<now, dirs, files, pdfExtractor, popplerShape, lastIndex>>
    /\ UNCHANGED pureVars

LastCall(r) == run[r].renderCalls[Len(run[r].renderCalls)]
CliLive(r) == run[r].renderCalls # <<>> /\ LastCall(r) = "cli"

\* Line 142: proc.stderr.on('data')
ProcStderr(r) ==
    /\ running = 0
    /\ CliLive(r)
    /\ run[r].proc \in {"running", "hung"}
    /\ Len(run[r].stderr) < MaxStderr
    /\ run' = Upd(r, [run[r] EXCEPT !.stderr = Append(@, "E")])
    /\ UNCHANGED <<now, dirs, files, pdfExtractor, popplerShape, lastIndex, running>>
    /\ UNCHANGED pureVars

\* A rejection that acts on a settled promise as on a pending one.
SettleRejectAgain(rec, err) ==
    [rec EXCEPT !.promise = "rejected",
                !.error = err,
                !.pc = OnRenderFailure(rec.renderCalls)]

\* reject(err) of the awaited promise: nothing happens to a settled promise;
\* the run that awaits a pending one goes on at the catch clause.
SettleReject(rec, err) ==
    IF rec.promise = "pending"
    THEN [rec EXCEPT !.promise = "rejected",
                     !.error = err,
                     !.pc = OnRenderFailure(rec.renderCalls)]
    ELSE rec

\* resolve(): the run that awaits goes on after the try block.
SettleResolve(rec) ==
    IF rec.promise = "pending"
    THEN [rec EXCEPT !.promise = "resolved", !.pc = "pairing"]
    ELSE rec

\* The run whose code is on the stack after an event of run r's process.
Resumed(r) == IF run[r].promise = "pending" THEN r ELSE running

\* The spawn error as line 143 words it.
SpawnError == <<"Failed to spawn pdftocairo">>

\* An 'error' listener that resolves and leaves the failure to the listing.
OnSpawnErrorResolves(rec) == SettleResolve(rec)

\* Line 143: the 'error' listener rejects with the spawn error.
OnSpawnError(rec) == SettleReject(rec, SpawnError)

\* Line 143: proc.on('error'): the process could not be spawned.
ProcError(r) ==
    /\ running = 0
    /\ CliLive(r)
    /\ run[r].proc = "running"
    /\ run[r].stderr = <<>>
    /\ run' = Upd(r, OnSpawnError([run[r] EXCEPT !.proc = "errored"]))
    /\ running' = Resumed(r)
    /\ UNCHANGED <<now, dirs, files, pdfExtractor, popplerShape, lastIndex>>
    /\ UNCHANGED pureVars

\* The codes a process closes with: the error's code when it was not
\* spawned, else 0 or another.
ExitCodes(proc) == IF proc = "errored" THEN {"-2"} ELSE {"0", "1"}

\* A rejection that leaves the captured text out.
CloseErrorNoStderr(code, stderr) == <<"pdftocairo exited", code, "stderr:">>

\* Line 146: the error of a process that closed with another code than 0:
\* `pdftocairo exited ${code}. stderr: ${stderr}`
CloseError(code, stderr) == <<"pdftocairo exited", code, "stderr:">> \o stderr

\* Lines 144-147: proc.on('close'). A process that exits with 0 has
\* written its files.
ProcClose(r) ==
    /\ running = 0
    /\ CliLive(r)
    /\ run[r].proc \in {"running", "errored"}
    /\ \E code \in ExitCodes(run[r].proc), out \in RenderOutputs :
         IF code = "0"
         THEN /\ files' = Rendered(files, dirs, run[r].tempDir, out, r)
              /\ run' = Upd(r, SettleResolve([run[r] EXCEPT !.proc = "closed",
                                                            !.exitCode = code]))
         ELSE /\ files' = files
              /\ run' = Upd(r, SettleReject([run[r] EXCEPT !.proc = "closed",
                                                           !.exitCode = code],
                                            CloseError(code, run[r].stderr)))
    /\ running' = Resumed(r)
    /\ UNCHANGED <<now, dirs, pdfExtractor, popplerShape, lastIndex>>
    /\ UNCHANGED pureVars

\* Lines 189-195: the promise of poppler.pdfToCairo settles.
LibSettled(r) ==
    /\ running = 0
    /\ run[r].pc = "rendering"
    /\ LastCall(r) = "lib"
    /\ run[r].proc = "running"
    /\ \E ok \in BOOLEAN, out \in RenderOutputs :
         IF ok
         THEN /\ files' = Rendered(files, dirs, run[r].tempDir, out, r)
              /\ run' = Upd(r, SettleResolve([run[r] EXCEPT !.proc = "closed"]))
         ELSE /\ files' = files
              /\ run' = Upd(r, SettleReject([run[r] EXCEPT !.proc = "closed"],
                                            <<"pdfToCairo rejected">>))
    /\ running' = r
    /\ UNCHANGED <<now, dirs, pdfExtractor, popplerShape, lastIndex>>
    /\ UNCHANGED pureVars

\* Lines 212-216: the catch clause removes the workspace (a failure of
\* rmSync is swallowed) and throws the wrapped error.
RenderCatch(r) ==
    /\ running = r
    /\ run[r].pc = "renderCatch"
    /\ \E refused \in BOOLEAN :
         LET res == RmSync(dirs, files, run[r].tempDir, refused)
         IN  /\ dirs' = res.dirs
             /\ files' = res.files
             /\ run' = Upd(r, [Cleaned(run[r], dirs, run[r].tempDir, res) EXCEPT
                    !.pc = "catch",
                    !.error = <<"Image extraction failed (Poppler required)">> \o @])
    /\ UNCHANGED <<now, pdfExtractor, popplerShape, lastIndex, running>>
    /\ UNCHANGED pureVars

\* A loop bound one short.
PairCountShort(nLabels, nFiles) ==
    IF Min(nLabels, nFiles) > 0 THEN Min(nLabels, nFiles) - 1 ELSE 0

\* Line 232: Math.min(foundLabels.length, extractedFiles.length)
PairCount(nLabels, nFiles) == Min(nLabels, nFiles)

\* Lines 241-244: the artifact of a label and the content of a file.
Artifact(label, data) ==
    [name |-> label \o DotPng, dataUrl |-> DataUrl(data)]

\* An index into the files that is one ahead of the index into the labels.
PairedFileNext(names, i) == names[IF i < Len(names) THEN i + 1 ELSE i]

\* Line 237: const fileName = extractedFiles[i], for the 1-based i.
PairedFile(names, i) == names[i]

\* A loop that takes the next unused file for a label, so that the pairs
\* after a skipped one move up by one file.
RECURSIVE PairLoopShift(_, _, _, _, _, _, _)
PairLoopShift(labels, names, fs, dir, i, count, unreadable) ==
    IF i > count THEN <<>>
    ELSE (IF i \in unreadable THEN <<>>
          ELSE <<Artifact(labels[i],
                          DataOf(fs, dir,
                                 names[i - Cardinality({k \in unreadable : k < i})]))>>)
         \o PairLoopShift(labels, names, fs, dir, i + 1, count, unreadable)

\* Lines 235-249: the pairing loop from index i; a file whose read throws
\* is skipped.
RECURSIVE PairLoop(_, _, _, _, _, _, _)
PairLoop(labels, names, fs, dir, i, count, unreadable) ==
    IF i > count THEN <<>>
    ELSE (IF i \in unreadable THEN <<>>
          ELSE <<Artifact(labels[i], DataOf(fs, dir, PairedFile(names, i)))>>)
         \o PairLoop(labels, names, fs, dir, i + 1, count, unreadable)

\* A function that throws when labels were found and nothing was paired.
AfterPairingStrict(labels, results) ==
    IF labels # <<>> /\ results = <<>> THEN "throw" ELSE "return"

\* Lines 251-255: what follows the loop: the function returns what it has,
\* empty or not.
AfterPairing(labels, results) == "return"

\* Lines 219-255, and lines 69-72 of the handler: list the workspace, pair
\* and return; the handler takes over tempDirectory.
Pairing(r) ==
    /\ running = r
    /\ run[r].pc = "pairing"
    /\ IF run[r].tempDir \notin dirs
       THEN run' = Upd(r, [run[r] EXCEPT !.pc = "catch",
                                         !.error = <<"readdir failed">>])
       ELSE \E listing \in Listings(NamesIn(files, run[r].tempDir)) :
              LET ef    == ExtractedFiles(listing)
                  count == PairCount(Len(run[r].foundLabels), Len(ef))
              IN  \E unreadable \in SUBSET (1..count) :
                    LET res == PairLoop(run[r].foundLabels, ef, files,
                                        run[r].tempDir, 1, count, unreadable)
                    IN  run' = Upd(r,
                          IF AfterPairing(run[r].foundLabels, res) = "return"
                          THEN [run[r] EXCEPT !.pc = "saving",
                                              !.extractedFiles = ef,
                                              !.results = res,
                                              !.paired = TRUE,
                                              !.readFailures = Cardinality(unreadable),
                                              !.unreadable = unreadable,
                                              !.handlerTempDir = run[r].tempDir]
                          ELSE [run[r] EXCEPT !.pc = "catch",
                                              !.extractedFiles = ef,
                                              !.results = res,
                                              !.paired = TRUE,
                                              !.readFailures = Cardinality(unreadable),
                                              !.unreadable = unreadable,
                                              !.error = <<"no artifacts matched">>])
    /\ UNCHANGED <<now, dirs, files, pdfExtractor, popplerShape, lastIndex, running>>
    /\ UNCHANGED pureVars

\* Line 107: fs.writeFileSync(filePath, buffer) in the destination, whose
\* files are dest: a file of that name is replaced.
WriteFileSync(dest, name, data) ==
    {f \in dest : f.name # name} \cup {[name |-> name, data |-> data]}

\* Lines 103-107: what the write of one artifact leaves in the destination.
SaveItem(dest, item) ==
    WriteFileSync(dest, CleanedFileName(item.name), DecodeItem(item))

\* A loop that gives up at the first write that throws.
RECURSIVE SaveLoopAbort(_, _, _, _)
SaveLoopAbort(items, i, failed, acc) ==
    IF i > Len(items) THEN acc
    ELSE IF i \in failed
         THEN [acc EXCEPT !.errors = Append(@, items[i].name)]
         ELSE SaveLoopAbort(items, i + 1, failed,
                            [acc EXCEPT !.filesSaved = @ + 1,
                                        !.dest = SaveItem(@, items[i])])

\* handleAutoSave, lines 101-114: the loop over the artifacts from index
\* i; failed holds the indexes whose write throws.
RECURSIVE SaveLoop(_, _, _, _)
SaveLoop(items, i, failed, acc) ==
    IF i > Len(items) THEN acc
    ELSE SaveLoop(items, i + 1, failed,
                  IF i \in failed
                  THEN [acc EXCEPT !.errors = Append(@, items[i].name)]
                  ELSE [acc EXCEPT !.filesSaved = @ + 1,
                                   !.dest = SaveItem(@, items[i])])

\* handleAutoSave, lines 88-125: the destination directory cannot be made,
\* or every artifact is tried. dest holds the files the call has left in
\* savePath.
HandleAutoSave(items, dirOk, failed) ==
    IF ~dirOk
    THEN [done |-> TRUE, dirFailed |-> TRUE, success |-> FALSE,
          filesSaved |-> 0, errors |-> <<>>, dest |-> {}]
    ELSE LET acc == SaveLoop(items, 1, failed,
                             [filesSaved |-> 0, errors |-> <<>>, dest |-> {}])
         IN  [done |-> TRUE, dirFailed |-> FALSE, success |-> acc.errors = <<>>,
              filesSaved |-> acc.filesSaved, errors |-> acc.errors,
              dest |-> acc.dest]

\* A handler that throws when the summary reports a failure.
AfterSaveStrict(saveResponse) ==
    IF saveResponse.success THEN "return" ELSE "throw"

\* Lines 73-75 of the handler: what follows handleAutoSave: the handler
\* returns the artifacts with the summary, whatever the summary says.
AfterSave(saveResponse) == "return"

\* Lines 72-75 of the handler.
AutoSave(r) ==
    /\ running = r
    /\ run[r].pc = "saving"
    /\ \E dirOk \in BOOLEAN, failed \in SUBSET (1..Len(run[r].results)) :
         LET saveResponse == HandleAutoSave(run[r].results, dirOk, failed)
         IN  run' = Upd(r,
                IF AfterSave(saveResponse) = "return"
                THEN [run[r] EXCEPT !.pc = "finally",
                                    !.saveStatus = saveResponse]
                ELSE [run[r] EXCEPT !.pc = "catch",
                                    !.saveStatus = saveResponse,
                                    !.error = <<"save failed">>])
    /\ UNCHANGED <<now, dirs, files, pdfExtractor, popplerShape, lastIndex, running>>
    /\ UNCHANGED pureVars

\* Lines 76-79 of the handler: the catch clause wraps the error.
HandlerCatch(r) ==
    /\ running = r
    /\ run[r].pc = "catch"
    /\ run' = Upd(r, [run[r] EXCEPT !.pc = "finally",
                                    !.error = <<"Failed to process PDF">> \o @])
    /\ UNCHANGED <<now, dirs, files, pdfExtractor, popplerShape, lastIndex, running>>
    /\ UNCHANGED pureVars

\* Lines 75 and 79 of the handler: what the caller receives, the returned
\* object or the thrown error.
HandlerResult(rec) ==
    IF rec.error = <<>>
    THEN [kind |-> "result", results |-> rec.results,
          saveStatus |-> rec.saveStatus]
    ELSE [kind |-> "error", msg |-> rec.error]

\* A finally clause whose removal is not wrapped: its error replaces the
\* result.
FinallyOutcomeEscalates(rec, threw) ==
    IF threw
    THEN [kind |-> "error", msg |-> <<"rmSync failed">>]
    ELSE HandlerResult(rec)

\* Lines 80-85: the removal is inside try/catch, whose catch clause logs;
\* the finally clause completes normally and the handler's result or error
\* stands.
FinallyOutcome(rec, threw) == HandlerResult(rec)

\* Lines 80-85 of the handler: the finally clause removes the directory the
\* handler knows of, if it exists; then the caller gets the result or the
\* error, and the locals of the call are gone.
Finally(r) ==
    /\ running = r
    /\ run[r].pc = "finally"
    /\ LET d    == run[r].handlerTempDir
           call == d # <<>> /\ d \in dirs
       IN  \E refused \in BOOLEAN :
             LET res == IF call THEN RmSync(dirs, files, d, refused)
                        ELSE [dirs |-> dirs, files |-> files, threw |-> FALSE]
                 rec == IF call THEN Cleaned(run[r], dirs, d, res) ELSE run[r]
             IN  /\ dirs' = res.dirs
                 /\ files' = res.files
                 /\ run' = Upd(r, [InitRun EXCEPT
                        !.pc = "delivered",
                        !.filePath = rec.filePath,
                        !.tempDir = rec.tempDir,
                        !.created = rec.created,
                        !.parseCalls = rec.parseCalls,
                        !.renderCalls = rec.renderCalls,
                        !.promise = rec.promise,
                        !.proc = rec.proc,
                        !.paired = rec.paired,
                        !.cleanups = rec.cleanups,
                        !.cleanupErrors = rec.cleanupErrors,
                        !.rmMissing = rec.rmMissing,
                        !.outcome = FinallyOutcome(rec, res.threw)])
    /\ running' = 0
    /\ UNCHANGED <<now, pdfExtractor, popplerShape, lastIndex>>
    /\ UNCHANGED pureVars

\* A millisecond passes. Date.now() is read at line 161 and nowhere else,
\* so the clock is followed while an invocation has still to read it, and
\* from one value to the next once a workspace was named after the value.
Tick ==
    /\ running = 0
    /\ now < MaxClock
    /\ \E r \in Runs : run[r].pc \in {"idle", "validating", "createWorkspace"}
    /\ \E r \in Runs : run[r].tempDir = TempDirName(now)
    /\ now' = now + 1
    /\ UNCHANGED <<dirs, files, pdfExtractor, popplerShape, lastIndex, running, run>>
    /\ UNCHANGED pureVars

Next ==
    \/ Tick
    \/ \E r \in Runs : StartProcessing(r)
    \/ \E r \in Runs : ValidateInput(r)
    \/ \E r \in Runs : CreateWorkspace(r)
    \/ \E r \in Runs : ReadSource(r)
    \/ \E r \in Runs : ParseSettled(r)
    \/ \E r \in Runs : ScanLabels(r)
    \/ \E r \in Runs : SelectBackend(r)
    \/ \E r \in Runs : SpawnCli(r)
    \/ \E r \in Runs : ProcStderr(r)
    \/ \E r \in Runs : ProcError(r)
    \/ \E r \in Runs : ProcClose(r)
    \/ \E r \in Runs : LibSettled(r)
    \/ \E r \in Runs : RenderCatch(r)
    \/ \E r \in Runs : Pairing(r)
    \/ \E r \in Runs : AutoSave(r)
    \/ \E r \in Runs : HandlerCatch(r)
    \/ \E r \in Runs : Finally(r)

Spec == Init /\ [][Next]_vars

\* --------------------------------------------- the label scan on its own
\* Every text of at most MaxTokens tokens.
Texts == {Concat(ts) : ts \in UNION {[1..n -> Tokens] : n \in 0..MaxTokens}}

PipeIdle ==
    /\ now = 0
    /\ dirs = {}
    /\ files = {}
    /\ pdfExtractor = "loaded"
    /\ popplerShape = "absent"
    /\ lastIndex = 0
    /\ running = 0
    /\ run = [r \in Runs |-> InitRun]

LabelsInit ==
    /\ PipeIdle
    /\ scanText \in Texts
    /\ scanOut = [done |-> FALSE]
    /\ SortIdle /\ CodecIdle /\ NameIdle

\* Lines 171-176 on scanText, the expression at rest.
DoScan ==
    /\ ~scanOut.done
    /\ LET res == FindLabels(scanText, lastIndex)
       IN  /\ scanOut' = [done |-> TRUE, labels |-> res.labels,
                          matches |-> res.matches]
           /\ lastIndex' = res.lastIndex
    /\ UNCHANGED <<now, dirs, files, pdfExtractor, popplerShape, running, run>>
    /\ UNCHANGED <<scanText, sortIn, sortOut, codecIn, codecOut, nameIn, nameOut>>

NextLabels == DoScan

SpecLabels == LabelsInit /\ [][NextLabels]_vars

\* ------------------------------------- the scan loop, turn by turn
\* Every text of at most MaxScanTokens tokens.
ScanTexts == {Concat(ts) : ts \in UNION {[1..n -> Tokens] : n \in 0..MaxScanTokens}}

ScanInit ==
    /\ PipeIdle
    /\ scanText \in ScanTexts
    /\ scanOut = [done |-> FALSE, labels |-> <<>>, matches |-> <<>>]
    /\ SortIdle /\ CodecIdle /\ NameIdle

\* Lines 172-176: one evaluation of the loop's condition, and of its body
\* when exec returned a match; exec resets lastIndex when it returns null.
ScanStep ==
    /\ ~scanOut.done
    /\ LET m == RegexExec(scanText, lastIndex)
       IN  IF ~m.found
           THEN /\ scanOut' = [scanOut EXCEPT !.done = TRUE]
                /\ lastIndex' = 0
           ELSE LET label == Trim(SubSeq(scanText, m.index, m.end - 1))
                IN  /\ scanOut' = [scanOut EXCEPT
                          !.labels = PushLabel(@, label),
                          !.matches = Append(@, label)]
                    /\ lastIndex' = LastIndexAfter(m)
    /\ UNCHANGED <<now, dirs, files, pdfExtractor, popplerShape, running, run>>
    /\ UNCHANGED <<scanText, sortIn, sortOut, codecIn, codecOut, nameIn, nameOut>>

NextScan == ScanStep

\* The loop is synchronous code: it goes on until it has ended. This is
\* the weak fairness of ScanStep written out, ENABLED being ~scanOut.done.
ScanRuns == []<>scanOut.done \/ []<><<ScanStep>>_vars

SpecScan == ScanInit /\ [][NextScan]_vars /\ ScanRuns

\* ------------------------------------------ pairing's listing on its own
\* Every listing of at most MaxFiles distinct names.
DirListings ==
    UNION {{l \in [1..n -> FileNames] :
               \A i, j \in 1..n : i # j => l[i] # l[j]} : n \in 0..MaxFiles}

SortInit ==
    /\ PipeIdle
    /\ sortIn \in DirListings
    /\ sortOut = [done |-> FALSE]
    /\ ScanIdle /\ CodecIdle /\ NameIdle

\* Lines 219-229 on sortIn.
DoSort ==
    /\ ~sortOut.done
    /\ sortOut' = [done |-> TRUE, files |-> ExtractedFiles(sortIn)]
    /\ UNCHANGED pipeVars
    /\ UNCHANGED <<scanText, scanOut, sortIn, codecIn, codecOut, nameIn, nameOut>>

NextSort == DoSort

SpecSort == SortInit /\ [][NextSort]_vars

\* -------------------------------------------------- the data URL on its own
\* Byte values the contents are made of, and every content of at most
\* MaxBytes bytes.
ByteSamples == {0, 1, 63, 137, 250, 255}
Buffers == UNION {[1..n -> ByteSamples] : n \in 0..MaxBytes}

CodecInit ==
    /\ PipeIdle
    /\ codecIn \in Buffers
    /\ codecOut = [done |-> FALSE]
    /\ ScanIdle /\ SortIdle /\ NameIdle

\* Lines 240-244 of the library on a file of content codecIn, then lines
\* 102 and 106 of handleAutoSave on the artifact.
DoCodec ==
    /\ ~codecOut.done
    /\ LET item == Artifact(Id1, codecIn)
       IN  codecOut' = [done |-> TRUE, item |-> item,
                        written |-> DecodeItem(item)]
    /\ UNCHANGED pipeVars
    /\ UNCHANGED <<scanText, scanOut, sortIn, sortOut, codecIn, nameIn, nameOut>>

NextCodec == DoCodec

SpecCodec == CodecInit /\ [][NextCodec]_vars

\* --------------------------------------------- file-name cleaning on its own
\* Pieces of the names handed to the save step, and every name of at most
\* MaxNameTokens pieces.
NameTokens ==
    {<<"a">>, <<"B">>, <<" ">>, <<",">>, <<"_">>, Id1,
     <<".", "p", "n", "g">>, <<".", "P", "N", "G">>, <<".", "g", "i", "f">>,
     <<".", "j", "p", "e", "g">>}
Names == {Concat(ts) : ts \in UNION {[1..n -> NameTokens] : n \in 0..MaxNameTokens}}

NamesInit ==
    /\ PipeIdle
    /\ nameIn \in Names
    /\ nameOut = [done |-> FALSE]
    /\ ScanIdle /\ SortIdle /\ CodecIdle

\* Lines 103-104 of handleAutoSave on nameIn, and on their own result.
DoCleanName ==
    /\ ~nameOut.done
    /\ LET once == CleanedFileName(nameIn)
       IN  nameOut' = [done |-> TRUE, once |-> once,
                       twice |-> CleanedFileName(once)]
    /\ UNCHANGED pipeVars
    /\ UNCHANGED <<scanText, scanOut, sortIn, sortOut, codecIn, codecOut, nameIn>>

NextNames == DoCleanName

SpecNames == NamesInit /\ [][NextNames]_vars

\* What happens without the caller: a promise of an operation that ends
\* settles, and a process that ends sends its events.
Settle ==
    \E r \in Runs :
        ParseSettled(r) \/ ProcError(r) \/ ProcClose(r) \/ LibSettled(r)

\* Synchronous code that is due to run does run.
Turn ==
    \E r \in Runs :
        \/ ValidateInput(r) \/ CreateWorkspace(r) \/ ReadSource(r)
        \/ SelectBackend(r) \/ SpawnCli(r) \/ RenderCatch(r)
        \/ AutoSave(r) \/ HandlerCatch(r) \/ Finally(r)

\* The same for ScanLabels and Pairing: their weak fairness written out,
\* ENABLED being the guard of the action, which every step of it ends.
ScanAndPairingRun ==
    \A r \in Runs :
        []<>~(running = r /\ run[r].pc \in {"scanning", "pairing"})

FairSpec ==
    /\ Init /\ [][Next]_vars
    /\ WF_vars(Settle) /\ WF_vars(Turn)
    /\ ScanAndPairingRun

\* =============================================================== claims
Live(r) == run[r].created /\ run[r].pc \notin {"idle", "delivered"}
Delivers(r) == run[r].pc # "delivered" /\ run'[r].pc = "delivered"

\* C1: for every run that has created a workspace directory, the directory
\* has been removed when the caller receives the result or the error, on
\* every exit path.
C1_WorkspaceRemovedAtDelivery ==
    [][\A r \in Runs :
          Delivers(r) /\ run[r].created => run[r].tempDir \notin dirs']_vars

\* C2: if the source path is missing or unreadable, the run fails without
\* creating a workspace and without starting the text parse or a render
\* call.
C2_BadInputCreatesNothing ==
    \A r \in Runs :
        run[r].filePath \in {"missing", "unreadable"}
            => /\ ~run[r].created
               /\ run[r].parseCalls = 0
               /\ run[r].renderCalls = <<>>

\* The first position of x in list.
FirstPos(list, x) ==
    CHOOSE k \in 1..Len(list) :
        list[k] = x /\ \A k2 \in 1..Len(list) : list[k2] = x => k <= k2

\* C3: the label list of the scan loop holds no value twice, holds every
\* trimmed match of the text, and holds them in the order of their first
\* occurrence.
C3_LabelsUniqueInFirstSeenOrder ==
    scanOut.done =>
        LET L == scanOut.labels
            M == scanOut.matches
        IN  /\ \A i, j \in 1..Len(L) : i # j => L[i] # L[j]
            /\ {L[i] : i \in 1..Len(L)} = {M[k] : k \in 1..Len(M)}
            /\ \A i, j \in 1..Len(L) :
                 i < j => FirstPos(M, L[i]) < FirstPos(M, L[j])

\* C3's case: a label occurs again after another label was collected.
C3_Witness ==
    /\ scanOut.done
    /\ Len(scanOut.labels) >= 2
    /\ \E k \in 1..Len(scanOut.matches) :
         /\ scanOut.matches[k] = scanOut.labels[1]
         /\ k > FirstPos(scanOut.matches, scanOut.labels[2])

SmallerDigitRun(a, b) ==
    \E k \in 1..Min(Len(a), Len(b)) :
        LET ra == RunOf(a, k, Digit, Len(a))
            rb == RunOf(b, k, Digit, Len(b))
        IN  /\ At(a, k - 1) \notin Digit
            /\ Slice(a, 1, k - 1) = Slice(b, 1, k - 1)
            /\ ra >= 1 /\ rb >= 1
            /\ Slice(a, k + ra, Len(a)) = Slice(b, k + rb, Len(b))
            /\ NumVal(Slice(a, k, k + ra - 1)) < NumVal(Slice(b, k, k + rb - 1))

\* C5: in the sorted list of rendered files, of two names that differ only
\* in a run of digits the one with the smaller integer comes first.
C5_NaturalOrder ==
    sortOut.done =>
        \A i, j \in 1..Len(sortOut.files) :
            SmallerDigitRun(sortOut.files[i], sortOut.files[j]) => i < j

\* C5's case: img_-10.png was listed before img_-2.png and follows it in
\* the sorted list.
C5_Witness ==
    /\ sortOut.done
    /\ \E i, j \in 1..Len(sortIn) :
         /\ i < j
         /\ sortIn[i] = PngName(<<"1", "0">>)
         /\ sortIn[j] = PngName(<<"2">>)
    /\ \E i, j \in 1..Len(sortOut.files) :
         /\ i < j
         /\ sortOut.files[i] = PngName(<<"2">>)
         /\ sortOut.files[j] = PngName(<<"1", "0">>)

\* The run is at the end of the handler with labels found and nothing
\* paired.
LabelsButNoArtifacts(r) ==
    /\ run[r].pc = "finally"
    /\ run[r].paired
    /\ run[r].foundLabels # <<>>
    /\ run[r].results = <<>>

C7_WorkspacesDistinct ==
    \A r1, r2 \in Runs :
        r1 # r2 /\ Live(r1) /\ Live(r2) => run[r1].tempDir # run[r2].tempDir

\* C8: a run starts at most one render strategy, and once the call of a
\* strategy has failed the run is on its way to the caller with the error.
C8_OneStrategyPerRun ==
    \A r \in Runs :
        /\ Len(run[r].renderCalls) <= 1
        /\ run[r].promise = "rejected" =>
             /\ run[r].pc \in {"renderCatch", "catch", "finally", "delivered"}
             /\ run[r].pc = "delivered" => run[r].outcome.kind = "error"

\* C8's case: the library call was started and rejected, and the caller
\* has the error.
C8_Witness ==
    \E r \in Runs :
        /\ run[r].renderCalls = <<"lib">>
        /\ run[r].promise = "rejected"
        /\ run[r].pc = "delivered"
        /\ run[r].outcome.kind = "error"

\* C9: a run that created a workspace has called its removal exactly once
\* when it ends.
C9_CleanupExactlyOnce ==
    \A r \in Runs :
        run[r].pc = "delivered" /\ run[r].created => run[r].cleanups = 1

\* C10: a run that waits for its render call does not wait forever.
C10_RenderSettles ==
    \A r \in Runs : (run[r].pc = "rendering") ~> (run[r].pc # "rendering")

\* text occurs in err, as a run of consecutive elements.
Carries(err, text) ==
    \E i \in 1..(Len(err) + 1) : Slice(err, i, i + Len(text) - 1) = text

C12_CleanupIdempotent ==
    /\ [][\A r \in Runs :
            run'[r].rmMissing > run[r].rmMissing =>
                /\ dirs' = dirs
                /\ files' = files
                /\ run'[r].cleanupErrors = run[r].cleanupErrors]_vars
    /\ [](\A t \in 0..MaxClock, refused \in BOOLEAN :
            LET d     == TempDirName(t)
                once  == RmSync(dirs, files, d, FALSE)
                twice == RmSync(once.dirs, once.files, d, refused)
            IN  /\ ~twice.threw
                /\ twice.dirs = once.dirs
                /\ twice.files = once.files)

\* C12's case: a run's catch clause has called the removal on a workspace
\* that another run had already removed.
C12_Witness ==
    \E r \in Runs : run[r].rmMissing = 1 /\ run[r].cleanups = 1

\* C13: a removal that throws changes nothing of what the caller receives:
\* the handler delivers the result it had, or the error it had, and the
\* library's catch clause throws the render error it wraps.
C13_CleanupFailureNotEscalated ==
    [][\A r \in Runs :
          /\ Delivers(r) /\ run[r].pc = "finally" =>
               run'[r].outcome =
                  IF run[r].error = <<>>
                  THEN [kind |-> "result", results |-> run[r].results,
                        saveStatus |-> run[r].saveStatus]
                  ELSE [kind |-> "error", msg |-> run[r].error]
          /\ run[r].pc = "renderCatch" /\ run'[r].pc # "renderCatch" =>
               /\ run'[r].pc = "catch"
               /\ Carries(run'[r].error, run[r].error)]_vars

\* C13's case: the removal in the finally clause threw, and the caller has
\* the artifacts.
C13_Witness ==
    \E r \in Runs :
        /\ run[r].pc = "delivered"
        /\ run[r].cleanupErrors = 1
        /\ run[r].tempDir \in dirs
        /\ run[r].outcome.kind = "result"
        /\ run[r].outcome.results # <<>>

\* The run has the summary of handleAutoSave and still its artifact list.
Saved(r) == run[r].pc = "finally" /\ run[r].saveStatus.done

\* C14 as stated: on return filesSaved plus the failures recorded is the
\* number of artifacts, and success is true exactly when no write failed.
C14_EveryArtifactAttempted ==
    \A r \in Runs :
        Saved(r) =>
            LET st == run[r].saveStatus
            IN  /\ st.filesSaved + Len(st.errors) = Len(run[r].results)
                /\ st.success <=> st.errors = <<>>

\* C14, amended: that holds when the destination directory exists or could
\* be made; when it could not, handleAutoSave returns success false at
\* once, with no write attempted and no failure recorded.
C14_AttemptedUnlessNoDirectory ==
    \A r \in Runs :
        Saved(r) =>
            LET st == run[r].saveStatus
            IN  IF st.dirFailed
                THEN st.filesSaved = 0 /\ st.errors = <<>> /\ ~st.success
                ELSE /\ st.filesSaved + Len(st.errors) = Len(run[r].results)
                     /\ st.success <=> st.errors = <<>>

\* C14's case: the write of the first of two artifacts failed and the
\* second was written.
C14_Witness ==
    \E r \in Runs :
        /\ Saved(r)
        /\ Len(run[r].results) = 2
        /\ run[r].saveStatus.errors = <<run[r].results[1].name>>
        /\ run[r].results[2].name # run[r].results[1].name
        /\ run[r].saveStatus.filesSaved = 1
        /\ ~run[r].saveStatus.success

\* C15: the bytes the save step decodes from an artifact's data URL, split
\* at ';base64,', are the bytes of the file the artifact was made from.
C15_DataUrlRoundTrip ==
    codecOut.done => codecOut.written = codecIn

\* C15's case: a content whose length is no multiple of three, so that the
\* encoding is padded, with a byte that has its high bit set.
C15_Witness ==
    /\ codecOut.done
    /\ Len(codecIn) = 2
    /\ codecIn[1] = 255
    /\ codecOut.item.dataUrl[Len(codecOut.item.dataUrl)] = "="
    /\ codecOut.written = codecIn

\* C16: the name of every artifact the pairing step returns ends with one
\* .png and has before it only characters a file name may hold (letters,
\* digits, white space other than line breaks and tabs, dot, hyphen).
C16_ArtifactNamesSanitized ==
    \A r \in Runs :
        run[r].paired /\ run[r].pc = "saving" =>
            \A i \in 1..Len(run[r].results) :
                LET n    == run[r].results[i].name
                    base == Slice(n, 1, Len(n) - 4)
                IN  /\ Slice(n, Len(n) - 3, Len(n)) = DotPng
                    /\ ~IsPng(base)
                    /\ \A k \in 1..Len(base) :
                          base[k] \in FileNameChar \ {"\n", "\t"}

C18_SaveFailureNotFatal ==
    [][\A r \in Runs :
          Saved(r) /\ ~run[r].saveStatus.success /\ Delivers(r) =>
            /\ run'[r].outcome.kind = "result"
            /\ run'[r].outcome.results = run[r].results
            /\ run'[r].outcome.saveStatus = run[r].saveStatus
            /\ run[r].tempDir \in dirs =>
                  run'[r].cleanups = run[r].cleanups + 1
            /\ \/ run[r].tempDir \notin dirs'
               \/ run'[r].cleanupErrors > run[r].cleanupErrors]_vars

\* C18's case: a write failed, the caller has the artifacts and the
\* summary, and the workspace is gone.
C18_Witness ==
    \E r \in Runs :
        /\ run[r].pc = "delivered"
        /\ run[r].outcome.kind = "result"
        /\ run[r].outcome.results # <<>>
        /\ run[r].outcome.saveStatus.errors # <<>>
        /\ ~run[r].outcome.saveStatus.success
        /\ run[r].cleanups = 1
        /\ run[r].tempDir \notin dirs

\* The handler is about to return the result of a run that found one label
\* and listed two rendered files.
OneLabelTwoFiles(r) ==
    /\ run[r].pc = "finally"
    /\ run[r].error = <<>>
    /\ Len(run[r].foundLabels) = 1
    /\ Len(run[r].extractedFiles) = 2

C20_UnknownShapeFallsThrough ==
    [][\A r \in Runs :
          /\ popplerShape \in {"unknown", "throws"}
          /\ run[r].pc = "selectBackend"
          /\ run'[r].pc # "selectBackend"
          => run'[r].pc = "spawnCli"]_vars

\* The run spawned pdftocairo because no binding was found, and the process
\* could not be spawned.
NoStrategy(r) ==
    /\ popplerShape = "absent"
    /\ CliLive(r)
    /\ run[r].proc = "errored" \/ run[r].exitCode = "-2"

\* C21: when the binding is absent and pdftocairo cannot be spawned, the
\* caller receives an error that tells so and never a result, and the
\* library's catch clause has called the removal of the workspace: the
\* directory is gone unless that removal itself threw.
C21_NoStrategyFails ==
    [][\A r \in Runs :
          NoStrategy(r) /\ Delivers(r) =>
            /\ run'[r].outcome.kind = "error"
            /\ Carries(run'[r].outcome.msg, SpawnError)
            /\ run'[r].cleanups = 1
            /\ \/ run[r].tempDir \notin dirs'
               \/ run'[r].cleanupErrors = 1]_vars

\* C21's case: no binding, the spawn failed, the caller has the error and
\* the workspace is gone.
C21_Witness ==
    \E r \in Runs :
        /\ NoStrategy(r)
        /\ run[r].pc = "delivered"
        /\ run[r].outcome.kind = "error"
        /\ run[r].created
        /\ run[r].cleanups = 1
        /\ run[r].cleanupErrors = 0
        /\ run[r].tempDir \notin dirs

\* The run has made its workspace and is at a stage that comes before the
\* removal of the workspace in its own code.
UsesWorkspace(r) ==
    /\ run[r].created
    /\ run[r].pc \in {"readSource", "parsing", "scanning", "selectBackend",
                      "spawnCli", "rendering", "pairing", "saving"}

\* C22: the stages of a run are in order: the listing and the save come
\* after the one render call has ended, and the workspace of a run is not
\* deleted before the run's listing, reads and save are over, so that no
\* stage of the run finds its workspace deleted.
C22_StagesInOrder ==
    \A r \in Runs :
        /\ run[r].pc \in {"pairing", "saving"} =>
              /\ Len(run[r].renderCalls) = 1
              /\ run[r].promise # "pending"
              /\ run[r].proc \notin {"running", "hung"}
        /\ UsesWorkspace(r) => run[r].tempDir \in dirs

\* C23: a run has an outcome exactly when it is delivered, the outcome is
\* one result or one error, and neither the delivered state nor the outcome
\* changes afterwards; a settled render promise stays as it settled, and
\* the 'close' event of a process that has emitted 'error' changes neither
\* the position, the error nor the outcome of its run.
C23_OneOutcomeSettledOnce ==
    [][\A r \in Runs :
          /\ run'[r].outcome.kind \in {"result", "error"} <=> run'[r].pc = "delivered"
          /\ run'[r].outcome.kind \in {"none", "result", "error"}
          /\ run[r].pc = "delivered" =>
                /\ run'[r].pc = "delivered"
                /\ run'[r].outcome = run[r].outcome
          /\ run[r].promise \in {"resolved", "rejected"} =>
                run'[r].promise = run[r].promise
          /\ run[r].proc = "errored" /\ run'[r].proc = "closed" =>
                /\ run'[r].pc = run[r].pc
                /\ run'[r].error = run[r].error
                /\ run'[r].outcome = run[r].outcome]_vars

\* C23's case: the process has emitted 'error' and then 'close', and the
\* run has its one outcome, the spawn error.
C23_Witness ==
    \E r \in Runs :
        /\ CliLive(r)
        /\ run[r].proc = "closed"
        /\ run[r].promise = "rejected"
        /\ run[r].pc = "delivered"
        /\ run[r].outcome.kind = "error"
        /\ Carries(run[r].outcome.msg, SpawnError)

\* C24: the scan loop ends for every text: each turn that finds a match
\* finds a non-empty one and leaves the scan position further on, inside
\* the text; the loop reaches its end, and what it has collected then, empty
\* or not, is the list of labels of the text.
C24_ScanTerminates ==
    /\ [][~scanOut.done /\ ~scanOut'.done =>
            LET m == RegexExec(scanText, lastIndex)
            IN  /\ m.found
                /\ m.end > m.index
                /\ lastIndex < lastIndex'
                /\ lastIndex' <= Len(scanText)]_vars
    /\ <>scanOut.done
    /\ [](scanOut.done =>
            /\ lastIndex = 0
            /\ Len(scanOut.labels) <= Len(scanOut.matches)
            /\ scanOut.labels = FindLabels(scanText, 0).labels)

\* C24's case: the loop has ended after three matches.
C24_Witness ==
    /\ scanOut.done
    /\ scanOut.matches # <<>>
    /\ Len(scanOut.matches) = 3
    /\ Len(scanOut.labels) = 2

\* C24's other case: the loop has ended on a text with no match at all.
C24_WitnessNoMatch ==
    /\ scanOut.done
    /\ scanText # <<>>
    /\ scanOut.matches = <<>>

Scanned(r) ==
    run[r].pc \in {"selectBackend", "spawnCli", "rendering", "renderCatch",
                  "pairing", "saving"}

\* C26: outside a label scan the shared expression's scan position is 0,
\* and the labels a run has taken from its text are those a scan from
\* position 0 takes from that text, whatever runs came before or are under
\* way.
C26_NoScanStateCarried ==
    /\ lastIndex = 0
    /\ \A r \in Runs :
          Scanned(r) => run[r].foundLabels = FindLabels(run[r].pdfText, 0).labels

\* C26's case: a run has scanned a text with labels after another run,
\* still under way, scanned the same text.
C26_Witness ==
    \E r1, r2 \in Runs :
        /\ r1 # r2
        /\ run[r1].pc = "rendering"
        /\ run[r2].pc = "selectBackend"
        /\ run[r1].pdfText = run[r2].pdfText
        /\ run[r2].foundLabels = run[r1].foundLabels
        /\ Len(run[r2].foundLabels) = 2

\* The position after an identifier <4 digits>.<1-3 digits>.<1-3 digits>
\* that starts at position p of s, 0 when none starts there.
IdentEnd(s, p) ==
    LET d1 == RunOf(s, p + 5, Digit, 3)
        q1 == p + 5 + d1
        d2 == RunOf(s, q1 + 1, Digit, 3)
    IN  IF /\ RunOf(s, p, Digit, 4) = 4
           /\ At(s, p + 4) = "."
           /\ d1 >= 1
           /\ At(s, q1) = "."
           /\ d2 >= 1
        THEN q1 + 1 + d2
        ELSE 0

\* An identifier starts a whitespace-delimited word at position p of s.
StartsWord(s, p) ==
    /\ p = 1 \/ s[p - 1] \in SpaceChar
    /\ IdentEnd(s, p) # 0

BeginsWith(label, id) ==
    /\ Len(label) >= Len(id)
    /\ SubSeq(label, 1, Len(id)) = id

\* C27: after the scan of a text, every identifier that starts a
\* whitespace-delimited word of the text is the beginning of one of the
\* collected labels: the free-text tail of the label before it has not
\* taken its leading digits.
C27_NoIdentifierSwallowed ==
    scanOut.done =>
        \A p \in 1..Len(scanText) :
            StartsWord(scanText, p) =>
                \E k \in 1..Len(scanOut.labels) :
                    BeginsWith(scanOut.labels[k],
                               SubSeq(scanText, p, IdentEnd(scanText, p) - 1))

\* C28: after a save in which no write failed, of artifacts whose names
\* differ from each other, the destination holds as many files of this
\* save as the summary counts: no write has replaced an earlier one.
C28_DistinctNamesDistinctFiles ==
    \A r \in Runs :
        /\ Saved(r)
        /\ ~run[r].saveStatus.dirFailed
        /\ run[r].saveStatus.errors = <<>>
        /\ \A i, j \in 1..Len(run[r].results) :
              i # j => run[r].results[i].name # run[r].results[j].name
        => Cardinality(run[r].saveStatus.dest) = run[r].saveStatus.filesSaved

====
